---- MODULE Spec2Model ----
(***************************************************************************)
(* The generate -> execute -> diagnose -> retry loop of the R interpreter  *)
(* (llm_r_interpreter.js: generateRCode, executeRCode, processRRequest,    *)
(* runWithCorrection, main), runAdvancedRAnalysis and                      *)
(* downloadFilesFromSandbox (advanced_r_interpreter.js).                   *)
(*                                                                         *)
(* Spec runs one top-level call; GenerateRCodeSpec applies generateRCode   *)
(* to every bounded response text; ConcurrentSpec runs two calls of        *)
(* runWithCorrection interleaved at their awaits.                          *)
(* InteractiveSpec is the prompt loop of interactive_r.js; StreamingSpec   *)
(* the streaming callbacks of executeRCodeStreaming and                    *)
(* runAdvancedRAnalysis; ModelingSpec processModelingRequest               *)
(* (r_modeling_assistant.js).                                              *)
(*                                                                         *)
(* Text is a sequence of tokens; the empty JavaScript string is <<>>.      *)
(* Generated code is a sequence of single characters so that cleanRCode    *)
(* can be computed on it as the regular expressions compute it.            *)
(***************************************************************************)
EXTENDS Integers, Sequences, FiniteSets, TLC

\* ------------------------------------------------------------------ bounds
\* Largest maxAttempts argument a caller passes to runWithCorrection.
MaxAttemptsArg == 3

\* Longest response text of the model endpoint handed to generateRCode alone.
MaxResponseLen == 5

\* The maxAttempts argument of each of two concurrent requests.
ConcurrentAttempts == 1

\* ------------------------------------------------------------ text helpers
\* JavaScript truthiness of a string: the empty string (and an absent
\* field) is falsy.
Truthy(text) == text # <<>>

\* A chunk is one token; the empty chunk contributes no token.
ChunkText(c) == IF c = "" THEN <<>> ELSE <<c>>

\* Array.prototype.join with a newline separator over a list of chunks.
RECURSIVE JoinChunks(_)
JoinChunks(chunks) ==
  IF Len(chunks) = 0 THEN <<>>
  ELSE IF Len(chunks) = 1 THEN ChunkText(chunks[1])
  ELSE ChunkText(chunks[1]) \o <<"\n">> \o JoinChunks(Tail(chunks))

\* The backtick character of a response text.
Backtick == "BACKTICK"

IsSpace(ch) == ch \in {" ", "\n"}

\* String.prototype.trim()
RECURSIVE TrimLeft(_)
TrimLeft(s) ==
  IF Len(s) > 0 /\ IsSpace(s[1]) THEN TrimLeft(Tail(s)) ELSE s

RECURSIVE TrimRight(_)
TrimRight(s) ==
  IF Len(s) > 0 /\ IsSpace(s[Len(s)])
  THEN TrimRight(SubSeq(s, 1, Len(s) - 1))
  ELSE s

Trim(s) == TrimRight(TrimLeft(s))

\* The first replace of cleanRCode (three backticks, optionally followed by
\* r or R, global and case-insensitive): scanning left to right, every run
\* of three backticks, together with an r or R that follows it, is deleted.
RECURSIVE RemoveFences(_)
RemoveFences(s) ==
  IF Len(s) = 0 THEN <<>>
  ELSE IF Len(s) >= 3 /\ s[1] = Backtick /\ s[2] = Backtick /\ s[3] = Backtick
       THEN IF Len(s) >= 4 /\ s[4] \in {"r", "R"}
            THEN RemoveFences(SubSeq(s, 5, Len(s)))
            ELSE RemoveFences(SubSeq(s, 4, Len(s)))
       ELSE <<s[1]>> \o RemoveFences(Tail(s))

\* The second replace of cleanRCode: every backtick is deleted.
RemoveBackticks(s) == SelectSeq(s, LAMBDA ch : ch # Backtick)

\* A cleaning that removes the fences and leaves single backticks alone.
cleanRCodeFencesOnly(code) == Trim(RemoveFences(code))

cleanRCode(code) ==
  LET fenced == Trim(RemoveFences(code))
  IN  IF Len(fenced) > 0 /\ (fenced[1] = Backtick \/ fenced[Len(fenced)] = Backtick)
      THEN RemoveBackticks(fenced)
      ELSE fenced

\* --------------------------------------------------------- provider values
\* execution.error of the remote run: null, or the error object of the run.
Null == "null"
RemoteErrors == {Null, "ExecutionFailedError"}

\* Lists of stderr chunks the provider delivers in one execution: none, one
\* empty chunk, one chunk, two empty chunks, two chunks.
StderrLists == {<<>>, <<"">>, <<"e1">>, <<"", "">>, <<"e1", "e2">>}

StdoutLists == {<<"o1">>}

\* A remote path: base name and extension (the text after the last dot).
PlotPng == [name |-> "plot", ext |-> "png"]
DataCsv == [name |-> "data", ext |-> "csv"]
ChartPNG == [name |-> "chart", ext |-> "PNG"]
CreatedFileLists == {<<DataCsv, PlotPng, ChartPNG>>}

\* execution.filesystem: absent, or an object holding the created-file list.
NoFilesystem == [present |-> FALSE, createdFiles |-> <<>>]
Filesystems ==
  {NoFilesystem} \cup {[present |-> TRUE, createdFiles |-> l] : l \in CreatedFileLists}

\* What sandbox.runCode resolves to.
Executions ==
  [error : RemoteErrors,
   stdout : StdoutLists,
   stderr : StderrLists,
   filesystem : Filesystems]

NoExecution ==
  [error |-> Null, stdout |-> <<>>, stderr |-> <<>>, filesystem |-> NoFilesystem]

\* Texts the model endpoint answers with (data.choices[0].message.content).
Responses ==
  { <<Backtick, Backtick, Backtick, "r", "\n", "x", "\n", Backtick, Backtick, Backtick>>,
    <<" ", "y", Backtick, "z", "\n">> }

\* Every text of at most MaxResponseLen characters the endpoint can answer
\* with, over backticks, the letters r and R, a space and another character.
ResponseChars == {Backtick, "r", "R", " ", "x"}
ResponseTexts == UNION {[1..n -> ResponseChars] : n \in 0..MaxResponseLen}

\* Messages of the exceptions thrown inside one attempt.
MissingKeyMessage == <<"API key is not configured">>
EndpointErrorMessage == <<"API error">>
SessionCreationMessage == <<"SessionCreationError">>
TimeoutMessage == <<"ExecutionTimeoutError">>
FilesystemMessage == <<"FilesystemError">>

\* const R_SYSTEM_PROMPT of llm_r_interpreter.js and const R_MODELING_PROMPT
\* of r_modeling_assistant.js: two different texts.
R_SYSTEM_PROMPT == "You are an expert R programmer"
R_MODELING_PROMPT == "You are an expert R statistical modeler"

UserPrompts == {<<"p1">>}

PreviousErrorText == "\n\nThe previous code resulted in the following error:\n"
PleaseFixText == "\n\nPlease fix the code and try again."
UnknownErrorText == <<"Unknown error occurred">>

\* ------------------------------------------------------------------ results
\* The value of result before the first assignment (let result;).
Undefined ==
  [defined |-> FALSE, keys |-> {}, prompt |-> <<>>, code |-> <<>>,
   execution |-> NoExecution, success |-> FALSE, output |-> <<>>,
   errors |-> <<>>, error |-> <<>>, createdFiles |-> <<>>]

\* The object processRRequest returns when nothing was thrown.
ExecutedResult(p, code, exec) ==
  [defined |-> TRUE,
   keys |-> {"prompt", "code", "execution", "success", "output", "errors",
             "createdFiles"},
   prompt |-> p,
   code |-> code,
   execution |-> exec,
   success |-> (exec.error = Null),
   output |-> JoinChunks(exec.stdout),
   errors |-> JoinChunks(exec.stderr),
   error |-> <<>>,
   createdFiles |-> exec.filesystem.createdFiles]

\* The object processRRequest returns from its catch block.
CaughtResult(p, message) ==
  [defined |-> TRUE,
   keys |-> {"prompt", "error", "success"},
   prompt |-> p,
   code |-> <<>>,
   execution |-> NoExecution,
   success |-> FALSE,
   output |-> <<>>,
   errors |-> <<>>,
   error |-> message,
   createdFiles |-> <<>>]

\* The exported functions a caller starts from.
RunWithCorrection == "runWithCorrection"
RunAdvancedRAnalysis == "runAdvancedRAnalysis"
DownloadFilesFromSandbox == "downloadFilesFromSandbox"
GenerateRCode == "generateRCode"
ProcessModelingRequest == "processModelingRequest"

\* Lists of remote paths a caller hands to downloadFilesFromSandbox.
SandboxFileLists == {<<>>, <<DataCsv, PlotPng>>, <<ChartPNG>>}

\* Options of runAdvancedRAnalysis: rCode and prompt are texts (null is <<>>),
\* dataDir says whether a data directory was given.
AdvancedOptions ==
  [rCode : {<<>>, <<"c">>},
   prompt : {<<>>, <<"p1">>},
   dataDir : BOOLEAN,
   installPackages : BOOLEAN]

NoOptions ==
  [rCode |-> <<>>, prompt |-> <<>>, dataDir |-> FALSE, installPackages |-> FALSE]

MissingInputMessage == <<"Either rCode or prompt must be provided">>
UploadMessage == <<"UploadError">>
InstallPreamble == "install_if_needed preamble"
UploadedData == <<"/home/user/data/d.csv">>

\* What sandbox.filesystem.list of the output directory resolves to.
OutputListings == {<<>>, <<PlotPng, DataCsv>>}

\* runAdvancedRAnalysis has not returned yet.
NoAdvancedResult ==
  [defined |-> FALSE, keys |-> {}, success |-> FALSE, stdout |-> <<>>,
   stderr |-> <<>>, error |-> <<>>, dataFiles |-> <<>>, outputFiles |-> <<>>,
   code |-> <<>>, sandbox |-> 0]

\* success: !execution.error (line 342)
AdvancedSuccess(exec) == exec.error = Null

\* The object runAdvancedRAnalysis returns when nothing was thrown.
AdvancedExecuted(exec, uploaded, downloaded, code, sandbox) ==
  [defined |-> TRUE,
   keys |-> {"success", "output", "error", "dataFiles", "outputFiles", "code",
             "sandbox"},
   success |-> AdvancedSuccess(exec),
   stdout |-> JoinChunks(exec.stdout),
   stderr |-> JoinChunks(exec.stderr),
   error |-> IF exec.error = Null THEN <<>> ELSE <<exec.error>>,
   dataFiles |-> uploaded,
   outputFiles |-> downloaded,
   code |-> code,
   sandbox |-> sandbox]

\* The object runAdvancedRAnalysis returns from its catch block.
AdvancedCaught(message) ==
  [defined |-> TRUE,
   keys |-> {"success", "error"},
   success |-> FALSE,
   stdout |-> <<>>,
   stderr |-> <<>>,
   error |-> message,
   dataFiles |-> <<>>,
   outputFiles |-> <<>>,
   code |-> <<>>,
   sandbox |-> 0]

\* ------------------------------------------------- runWithCorrection pieces
\* A loop that allows one attempt too many.
LoopConditionOffByOne(a, m) == a <= m + 1

\* while (attempt <= maxAttempts)
LoopCondition(a, m) == a <= m

\* attempt === 1 ? userPrompt : userPrompt + previous-error text +
\* errorContext + please-fix text
PromptWithContext(a, p, ctx) ==
  IF a = 1 THEN p
  ELSE p \o <<PreviousErrorText>> \o ctx \o <<PleaseFixText>>

\* A classification that trusts the success flag alone.
IsSuccessIgnoresStderr(r) == r.success

\* result.success && !result.errors
IsSuccess(r) == r.success /\ ~Truthy(r.errors)

\* An error context that forgets the message of a caught exception.
NextErrorContextStderrOnly(r) ==
  IF Truthy(r.errors) THEN r.errors ELSE UnknownErrorText

\* result.errors || result.error || "Unknown error occurred"
NextErrorContext(r) ==
  IF Truthy(r.errors) THEN r.errors
  ELSE IF Truthy(r.error) THEN r.error
  ELSE UnknownErrorText

\* How many times the sandbox with creation number s has been closed: the
\* source holds no close or kill call on a sandbox, so it stays zero.
Closes(s) == 0

\* The extensions processRRequest downloads.
DownloadedExtensions == {"png", "jpg", "pdf"}

\* A download loop without an extension test.
IsDownloadableWhateverExtension(file) == TRUE

\* The extension test of processRRequest's download loop: endsWith compares
\* the characters as they are, upper case and lower case apart.
IsDownloadable(file) == file.ext \in DownloadedExtensions

\* The elements of a list.
Range(list) == {list[i] : i \in 1..Len(list)}

\* A list of downloaded files that also names the files that failed.
PushedEvenWhenFailed(files, failed) == files

\* downloadedFiles after the loop over files: localPath is pushed after the
\* read and the write of a file succeeded, in the order of the list; failed
\* holds the positions whose read or write threw.
Pushed(files, failed) ==
  LET kept == SelectSeq([i \in 1..Len(files) |-> i], LAMBDA i : i \notin failed)
  IN  [k \in 1..Len(kept) |-> files[kept[k]]]

\* -------------------------------------------------------------------- state
VARIABLES
  entry,              \* the exported function the top-level request calls
  sandboxFiles,       \* argument of downloadFilesFromSandbox
  downloadedFiles,    \* downloadFilesFromSandbox: const downloadedFiles, returned
  localDirFiles,      \* files written into localDir
  historyFile,        \* r_session_history.json: whether it exists, its records
  sessionHistory,     \* interactive_r.js: let sessionHistory
  handler,            \* what the interactive process is doing
  questionCallback,   \* the pending rl.question callback of the readline interface
  question,           \* closure of the pending callback: prompt, useCorrection, result
  promptUserCalls,    \* calls of promptUser so far
  questionsDropped,   \* rl.question calls made while a question was pending
  clock,              \* what new Date() returns
  systemPrompt,       \* system message of the latest request to the endpoint
  streamOptions,      \* the streaming function called and its options
  delivered,          \* chunks the provider delivered so far, in emission order
  collectedOutput,    \* the stdout and stderr arrays of the collector
  consoleLines,       \* what console.log and console.error printed
  callbackCalls,      \* chunks handed to the callbacks of the caller
  streamReturned,     \* collectedOutput as the streaming function returned it
  responseText,       \* generateRCode: text the provider call resolved to
  cleanedCode,        \* generateRCode: const cleanedCode, returned
  options,            \* argument of runAdvancedRAnalysis
  dataFiles,          \* runAdvancedRAnalysis: let dataFiles
  advancedResult,     \* value runAdvancedRAnalysis returned
  analysisResults,    \* files written into the local output directory
  apiKeyConfigured,   \* OPENAI_API_KEY / ANTHROPIC_API_KEY of the provider in use
  userPrompt,         \* argument of runWithCorrection
  maxAttempts,        \* argument of runWithCorrection
  pc,                 \* position of the request's flow of control
  attempt,            \* runWithCorrection: let attempt
  result,             \* runWithCorrection: let result
  errorContext,       \* runWithCorrection: let errorContext
  promptWithContext,  \* runWithCorrection: const promptWithContext
  generatedCode,      \* processRRequest: const generatedCode
  executionResult,    \* processRRequest: const executionResult
  generateCalls,      \* calls of generateRCode so far
  endpointRequests,   \* fetches sent to the model endpoint so far
  lastRequest,        \* user prompt carried by the latest generateRCode call
  sandboxes,          \* number of sandboxes created so far (none is ever closed)
  runSandbox,         \* executeRCode: const sandbox (its creation number, 0: none)
  downloadSandbox,    \* processRRequest: const sandbox of the download block
  runCalls,           \* calls of sandbox.runCode so far
  plots,              \* files written into the local plots directory
  plotContents,       \* for each file of plots, plotContents, the request whose content it holds
  running,            \* the request whose continuation the event loop is running
  suspended,          \* locals of the other request, waiting at an await
  written,            \* files the processRRequest call in progress has written
  processed,          \* attempt and value of the latest processRRequest return
  returned,           \* value runWithCorrection returned
  returns,            \* number of times runWithCorrection returned
  report              \* what main printed about the result

vars ==
  << entry, sandboxFiles, downloadedFiles, localDirFiles, responseText,
     cleanedCode, running, suspended, historyFile, sessionHistory, handler,
     questionCallback, question, promptUserCalls, questionsDropped, clock,
     systemPrompt, streamOptions, delivered, collectedOutput, consoleLines,
     callbackCalls, streamReturned, options, dataFiles, advancedResult, analysisResults,
     apiKeyConfigured, userPrompt, maxAttempts, pc, attempt, result,
     errorContext, promptWithContext, generatedCode, executionResult,
     generateCalls, endpointRequests, lastRequest, sandboxes, runSandbox,
     downloadSandbox, runCalls, plots, plotContents, written, processed, returned, returns, report >>

inputs ==
  << entry, sandboxFiles, options, apiKeyConfigured, userPrompt, maxAttempts >>
downloads == << downloadedFiles, localDirFiles >>
cleaning == << responseText, cleanedCode >>
eventLoop == << running, suspended >>
streaming ==
  << streamOptions, delivered, collectedOutput, consoleLines, callbackCalls,
     streamReturned >>
interactive ==
  << historyFile, sessionHistory, handler, questionCallback, question,
     promptUserCalls, questionsDropped, clock >>
advanced == << dataFiles, advancedResult, analysisResults >>
correction ==
  << attempt, result, errorContext, promptWithContext, plots, plotContents, written, processed,
     returned, returns, report, downloadSandbox >>
locals == << attempt, result, errorContext, promptWithContext >>
handles == << runSandbox, downloadSandbox >>

\* const collectedOutput = { stdout: [], stderr: [] }
NoOutput == [stdout |-> <<>>, stderr |-> <<>>]

\* executeRCodeStreaming called without options: the defaults of its
\* destructuring.
DefaultStreamOptions ==
  [function |-> "executeRCodeStreaming", collectOutput |-> TRUE,
   logToConsole |-> TRUE, onStdout |-> FALSE, onStderr |-> FALSE]

\* No streaming function is running.
NotStreaming ==
  /\ streamOptions = DefaultStreamOptions
  /\ delivered = <<>>
  /\ collectedOutput = NoOutput
  /\ consoleLines = <<>>
  /\ callbackCalls = NoOutput
  /\ streamReturned = Undefined

\* No request has been sent to the endpoint.
NoSystemPrompt == "none"

\* No second request is in flight.
NoRequest == [defined |-> FALSE]

\* The history file does not exist.
NoHistoryFile == [exists |-> FALSE, records |-> <<>>]

\* The closure of a callback before any line was read.
NoQuestion == [prompt |-> <<>>, useCorrection |-> FALSE, result |-> Undefined]

\* interactive_r.js is not running.
NotInteractive ==
  /\ historyFile = NoHistoryFile
  /\ sessionHistory = <<>>
  /\ handler = "none"
  /\ questionCallback = "none"
  /\ question = NoQuestion
  /\ promptUserCalls = 0
  /\ questionsDropped = 0
  /\ clock = 1

\* The plots directory holds no file.
NoContents == [f \in {} |-> 0]

\* No statement of the request has run yet.
Fresh ==
  /\ downloadedFiles = <<>>
  /\ localDirFiles = {}
  /\ dataFiles = <<>>
  /\ advancedResult = NoAdvancedResult
  /\ analysisResults = {}
  /\ attempt = 1
  /\ result = Undefined
  /\ errorContext = <<>>
  /\ promptWithContext = <<>>
  /\ generatedCode = <<>>
  /\ executionResult = NoExecution
  /\ generateCalls = 0
  /\ endpointRequests = 0
  /\ lastRequest = <<>>
  /\ systemPrompt = NoSystemPrompt
  /\ sandboxes = 0
  /\ runSandbox = 0
  /\ downloadSandbox = 0
  /\ runCalls = 0
  /\ plots = {}
  /\ plotContents = NoContents
  /\ written = {}
  /\ processed = [attempt |-> 0, result |-> Undefined]
  /\ returned = Undefined
  /\ returns = 0
  /\ report = "none"

Init ==
  /\ apiKeyConfigured \in BOOLEAN
  /\ \/ /\ entry = RunWithCorrection
        /\ userPrompt \in UserPrompts
        /\ maxAttempts \in 0..MaxAttemptsArg
        /\ options = NoOptions
        /\ sandboxFiles = <<>>
        /\ pc = "while"
     \/ /\ entry = RunAdvancedRAnalysis
        /\ userPrompt = <<>>
        /\ maxAttempts = 0
        /\ options \in AdvancedOptions
        /\ sandboxFiles = <<>>
        /\ pc = "advanced"
     \/ /\ entry = DownloadFilesFromSandbox
        /\ userPrompt = <<>>
        /\ maxAttempts = 0
        /\ options = NoOptions
        /\ sandboxFiles \in SandboxFileLists
        /\ pc = "download_files"
  /\ responseText = <<>>
  /\ cleanedCode = <<>>
  /\ running = 1
  /\ suspended = NoRequest
  /\ NotInteractive
  /\ NotStreaming
  /\ Fresh

\* A loop that keeps the first result instead of the latest one.
ProcessReturnsKeepsFirst(r) ==
  /\ result' = IF result.defined THEN result ELSE r
  /\ processed' = [attempt |-> attempt, result |-> r]
  /\ generatedCode' = <<>>
  /\ executionResult' = NoExecution
  /\ runSandbox' = 0
  /\ downloadSandbox' = 0
  /\ pc' = "classify"

\* processRRequest hands r back to runWithCorrection, which assigns it to
\* result (line 308) whether r came from the return or from the catch block;
\* the locals of processRRequest end with the call.
ProcessReturns(r) ==
  /\ result' = r
  /\ processed' = [attempt |-> attempt, result |-> r]
  /\ generatedCode' = <<>>
  /\ executionResult' = NoExecution
  /\ runSandbox' = 0
  /\ downloadSandbox' = 0
  /\ pc' = "classify"

\* catch (error) { return { prompt, error: error.message, success: false } }
Catch(message) == ProcessReturns(CaughtResult(promptWithContext, message))

\* processRRequest goes on to its next await.
Continue(next) ==
  /\ pc' = next
  /\ UNCHANGED << result, processed >>

\* The loop test succeeds: the prompt of this attempt is built and
\* processRRequest is called, having written no file yet.
EnterAttempt ==
  /\ pc = "while"
  /\ LoopCondition(attempt, maxAttempts)
  /\ promptWithContext' = PromptWithContext(attempt, userPrompt, errorContext)
  /\ written' = {}
  /\ pc' = "generate"
  /\ UNCHANGED << inputs, downloads, cleaning, eventLoop, interactive, streaming, systemPrompt, advanced, handles, attempt, result, errorContext, generatedCode,
                  executionResult, generateCalls, endpointRequests,
                  lastRequest, sandboxes, runCalls, plots, plotContents, processed,
                  returned, returns, report >>

\* The loop test fails: "Failed to execute R code after maximum correction
\* attempts", return result.
ReturnExhausted ==
  /\ pc = "while"
  /\ ~LoopCondition(attempt, maxAttempts)
  /\ returned' = result
  /\ returns' = returns + 1
  /\ pc' = "returned"
  /\ UNCHANGED << inputs, downloads, cleaning, eventLoop, interactive, streaming, systemPrompt, advanced, handles, locals, generatedCode, executionResult,
                  generateCalls, endpointRequests, lastRequest, sandboxes,
                  runCalls, plots, plotContents, written, processed, report >>

\* A generator that sends the request again when the endpoint fails.
GenerateWithRetry ==
  /\ pc = "generate"
  /\ generateCalls' = generateCalls + 1
  /\ lastRequest' = promptWithContext
  /\ systemPrompt' = IF apiKeyConfigured THEN R_SYSTEM_PROMPT ELSE systemPrompt
  /\ IF ~apiKeyConfigured
     THEN /\ Catch(MissingKeyMessage)
          /\ UNCHANGED endpointRequests
     ELSE /\ endpointRequests' \in {endpointRequests + 1, endpointRequests + 2}
          /\ \/ /\ Catch(EndpointErrorMessage)
                /\ endpointRequests' = endpointRequests + 2
             \/ \E response \in Responses :
                  /\ generatedCode' = cleanRCode(Trim(response))
                  /\ Continue("create")
                  /\ UNCHANGED << executionResult, runSandbox, downloadSandbox >>
  /\ UNCHANGED << inputs, downloads, cleaning, eventLoop, interactive, streaming, advanced, attempt, errorContext, promptWithContext,
                  sandboxes, runCalls, plots, plotContents, written, returned, returns, report >>

\* processRRequest calls generateRCode, which calls the provider's generator:
\* it throws without a fetch when the key is missing, throws when the
\* endpoint fails, and otherwise returns the cleaned, trimmed response.
Generate ==
  /\ pc = "generate"
  /\ generateCalls' = generateCalls + 1
  /\ lastRequest' = promptWithContext
  /\ systemPrompt' = IF apiKeyConfigured THEN R_SYSTEM_PROMPT ELSE systemPrompt
  /\ IF ~apiKeyConfigured
     THEN /\ Catch(MissingKeyMessage)
          /\ UNCHANGED endpointRequests
     ELSE /\ endpointRequests' = endpointRequests + 1
          /\ \/ Catch(EndpointErrorMessage)
             \/ \E response \in Responses :
                  /\ generatedCode' = cleanRCode(Trim(response))
                  /\ Continue("create")
                  /\ UNCHANGED << executionResult, runSandbox, downloadSandbox >>
  /\ UNCHANGED << inputs, downloads, cleaning, eventLoop, interactive, streaming, advanced, attempt, errorContext, promptWithContext,
                  sandboxes, runCalls, plots, plotContents, written, returned, returns, report >>

\* An executeRCode that keeps one session for all the calls.
CreateSandboxReusesHandle ==
  /\ pc = "create"
  /\ \/ /\ sandboxes' = IF sandboxes = 0 THEN 1 ELSE sandboxes
        /\ runSandbox' = IF sandboxes = 0 THEN 1 ELSE sandboxes
        /\ UNCHANGED downloadSandbox
        /\ Continue("run")
        /\ UNCHANGED << generatedCode, executionResult >>
     \/ /\ Catch(SessionCreationMessage)
        /\ UNCHANGED sandboxes
  /\ UNCHANGED << inputs, downloads, cleaning, eventLoop, interactive, streaming, systemPrompt, advanced, attempt, errorContext, promptWithContext,
                  generateCalls, endpointRequests, lastRequest, runCalls,
                  plots, plotContents, written, returned, returns, report >>

\* executeRCode: Sandbox.create resolves or throws.
CreateSandbox ==
  /\ pc = "create"
  /\ \/ /\ sandboxes' = sandboxes + 1
        /\ runSandbox' = sandboxes + 1
        /\ UNCHANGED downloadSandbox
        /\ Continue("run")
        /\ UNCHANGED << generatedCode, executionResult >>
     \/ /\ Catch(SessionCreationMessage)
        /\ UNCHANGED sandboxes
  /\ UNCHANGED << inputs, downloads, cleaning, eventLoop, interactive, streaming, systemPrompt, advanced, attempt, errorContext, promptWithContext,
                  generateCalls, endpointRequests, lastRequest, runCalls,
                  plots, plotContents, written, returned, returns, report >>

\* An execution that does not wait for the generation to complete.
RunCodeWithoutAwaitingGeneration ==
  /\ pc \in {"generate", "run"}
  /\ runCalls' = runCalls + 1
  /\ \/ \E execution \in Executions :
          /\ executionResult' = execution
          /\ Continue("collect")
          /\ UNCHANGED << generatedCode, runSandbox, downloadSandbox >>
     \/ Catch(TimeoutMessage)
  /\ UNCHANGED << inputs, downloads, cleaning, eventLoop, interactive, streaming, systemPrompt, advanced, attempt, errorContext, promptWithContext,
                  generateCalls, endpointRequests, lastRequest, sandboxes,
                  plots, plotContents, written, returned, returns, report >>

\* executeRCode: sandbox.runCode resolves to an execution or throws on timeout.
RunCode ==
  /\ pc = "run"
  /\ runCalls' = runCalls + 1
  /\ \/ \E execution \in Executions :
          /\ executionResult' = execution
          /\ Continue("collect")
          /\ UNCHANGED << generatedCode, runSandbox, downloadSandbox >>
     \/ Catch(TimeoutMessage)
  /\ UNCHANGED << inputs, downloads, cleaning, eventLoop, interactive, streaming, systemPrompt, advanced, attempt, errorContext, promptWithContext,
                  generateCalls, endpointRequests, lastRequest, sandboxes,
                  plots, plotContents, written, returned, returns, report >>

\* processRRequest after the execution: without a created-file list it
\* returns at once; with one it creates a second sandbox to download from.
OpenDownload ==
  /\ pc = "collect"
  /\ IF executionResult.filesystem.present
     THEN \/ /\ sandboxes' = sandboxes + 1
             /\ downloadSandbox' = sandboxes + 1
             /\ UNCHANGED runSandbox
             /\ Continue("download")
             /\ UNCHANGED << generatedCode, executionResult >>
          \/ /\ Catch(SessionCreationMessage)
             /\ UNCHANGED sandboxes
     ELSE /\ ProcessReturns(ExecutedResult(promptWithContext, generatedCode,
                                           executionResult))
          /\ UNCHANGED sandboxes
  /\ UNCHANGED << inputs, downloads, cleaning, eventLoop, interactive, streaming, systemPrompt, advanced, attempt, errorContext, promptWithContext,
                  generateCalls, endpointRequests, lastRequest, runCalls,
                  plots, plotContents, written, returned, returns, report >>

\* fs.writeFileSync(path.join(outputDir, filename), content) for the files
\* of a set: a file of the same base name is overwritten, whoever wrote it.
WrittenBy(request, files) ==
  [f \in plots \cup files |-> IF f \in files THEN request ELSE plotContents[f]]

\* The download loop: the files with a downloadable extension are read in
\* order and written locally under their base names; the first read or
\* write that fails throws out of the loop.
Download ==
  /\ pc = "download"
  /\ LET wanted ==
           SelectSeq(executionResult.filesystem.createdFiles, IsDownloadable)
     IN  \E failAt \in 0..Len(wanted) :
           IF failAt = 0
           THEN /\ written' = Range(wanted)
                /\ plots' = plots \cup Range(wanted)
                /\ plotContents' = WrittenBy(running, Range(wanted))
                /\ ProcessReturns(ExecutedResult(promptWithContext,
                                                 generatedCode, executionResult))
           ELSE /\ written' = {wanted[i] : i \in 1..(failAt - 1)}
                /\ plots' = plots \cup {wanted[i] : i \in 1..(failAt - 1)}
                /\ plotContents' =
                     WrittenBy(running, {wanted[i] : i \in 1..(failAt - 1)})
                /\ Catch(FilesystemMessage)
  /\ UNCHANGED << inputs, downloads, cleaning, eventLoop, interactive, streaming, systemPrompt, advanced, attempt, errorContext, promptWithContext,
                  generateCalls, endpointRequests, lastRequest, sandboxes,
                  runCalls, returned, returns, report >>

\* A loop whose success branch lacks the return statement.
ClassifyWithoutReturn ==
  /\ pc = "classify"
  /\ errorContext' = NextErrorContext(result)
  /\ attempt' = attempt + 1
  /\ pc' = "while"
  /\ UNCHANGED << inputs, downloads, cleaning, eventLoop, interactive, streaming, systemPrompt, advanced, handles, result, promptWithContext, generatedCode,
                  executionResult, generateCalls, endpointRequests,
                  lastRequest, sandboxes, runCalls, plots, plotContents, written, processed,
                  returned, returns, report >>

\* if (result.success && !result.errors) return result;
\* else { errorContext = ...; attempt++ }
Classify ==
  /\ pc = "classify"
  /\ IF IsSuccess(result)
     THEN /\ returned' = result
          /\ returns' = returns + 1
          /\ pc' = "returned"
          /\ UNCHANGED << attempt, errorContext >>
     ELSE /\ errorContext' = NextErrorContext(result)
          /\ attempt' = attempt + 1
          /\ pc' = "while"
          /\ UNCHANGED << returned, returns >>
  /\ UNCHANGED << inputs, downloads, cleaning, eventLoop, interactive, streaming, systemPrompt, advanced, handles, result, promptWithContext, generatedCode,
                  executionResult, generateCalls, endpointRequests,
                  lastRequest, sandboxes, runCalls, plots, plotContents, written, processed, report >>

\* main: if (result.success) "Execution successful!" else "Execution failed
\* after multiple attempts"; reading .success of undefined throws.
MainReport(r) ==
  IF ~r.defined THEN "unhandled"
  ELSE IF r.success THEN "successful"
  ELSE "failed"

Main ==
  /\ pc = "returned"
  /\ report' = MainReport(returned)
  /\ pc' = "done"
  /\ UNCHANGED << inputs, downloads, cleaning, eventLoop, interactive, streaming, systemPrompt, advanced, handles, locals, generatedCode, executionResult,
                  generateCalls, endpointRequests, lastRequest, sandboxes,
                  runCalls, plots, plotContents, written, processed, returned, returns >>

\* ------------------------------------------------------ runAdvancedRAnalysis
\* catch (error) { return { success: false, error: error.message } }
AdvancedCatch(message) ==
  /\ advancedResult' = AdvancedCaught(message)
  /\ pc' = "advanced_done"

\* A start that creates the session without checking its arguments.
AdvancedStartWithoutCheck ==
  /\ pc = "advanced"
  /\ IF FALSE
     THEN /\ AdvancedCatch(MissingInputMessage)
          /\ UNCHANGED << sandboxes, runSandbox >>
     ELSE \/ /\ sandboxes' = sandboxes + 1
             /\ runSandbox' = sandboxes + 1
             /\ pc' = "advanced_upload"
             /\ UNCHANGED advancedResult
          \/ /\ AdvancedCatch(SessionCreationMessage)
             /\ UNCHANGED << sandboxes, runSandbox >>
  /\ UNCHANGED << inputs, downloads, cleaning, eventLoop, interactive, streaming, systemPrompt, correction, dataFiles, analysisResults,
                  generatedCode, executionResult, generateCalls,
                  endpointRequests, lastRequest, runCalls >>

\* The argument check, then Sandbox.create, which resolves or throws.
AdvancedStart ==
  /\ pc = "advanced"
  /\ IF ~Truthy(options.rCode) /\ ~Truthy(options.prompt)
     THEN /\ AdvancedCatch(MissingInputMessage)
          /\ UNCHANGED << sandboxes, runSandbox >>
     ELSE \/ /\ sandboxes' = sandboxes + 1
             /\ runSandbox' = sandboxes + 1
             /\ pc' = "advanced_upload"
             /\ UNCHANGED advancedResult
          \/ /\ AdvancedCatch(SessionCreationMessage)
             /\ UNCHANGED << sandboxes, runSandbox >>
  /\ UNCHANGED << inputs, downloads, cleaning, eventLoop, interactive, streaming, systemPrompt, correction, dataFiles, analysisResults,
                  generatedCode, executionResult, generateCalls,
                  endpointRequests, lastRequest, runCalls >>

\* The two makeDir calls (their failures are swallowed) and the upload of
\* the data directory when one was given.
AdvancedUpload ==
  /\ pc = "advanced_upload"
  /\ IF options.dataDir
     THEN \/ /\ dataFiles' = UploadedData
             /\ pc' = "advanced_generate"
             /\ UNCHANGED advancedResult
          \/ /\ AdvancedCatch(UploadMessage)
             /\ UNCHANGED dataFiles
     ELSE /\ pc' = "advanced_generate"
          /\ UNCHANGED << dataFiles, advancedResult >>
  /\ UNCHANGED << inputs, downloads, cleaning, eventLoop, interactive, streaming, systemPrompt, correction, analysisResults, generatedCode,
                  executionResult, generateCalls, endpointRequests,
                  lastRequest, sandboxes, runSandbox, runCalls >>

\* finalCode with the package installation preamble when requested.
WithPreamble(code) ==
  IF options.installPackages THEN <<InstallPreamble>> \o code ELSE code

\* finalCode: the given code, or code generated from the prompt.
AdvancedGenerate ==
  /\ pc = "advanced_generate"
  /\ IF ~Truthy(options.rCode) /\ Truthy(options.prompt)
     THEN /\ generateCalls' = generateCalls + 1
          /\ lastRequest' = options.prompt
          /\ systemPrompt' = IF apiKeyConfigured THEN R_SYSTEM_PROMPT ELSE systemPrompt
          /\ IF ~apiKeyConfigured
             THEN /\ AdvancedCatch(MissingKeyMessage)
                  /\ UNCHANGED << endpointRequests, generatedCode >>
             ELSE /\ endpointRequests' = endpointRequests + 1
                  /\ \/ /\ AdvancedCatch(EndpointErrorMessage)
                        /\ UNCHANGED generatedCode
                     \/ \E response \in Responses :
                          /\ generatedCode' =
                               WithPreamble(cleanRCode(Trim(response)))
                          /\ pc' = "advanced_run"
                          /\ UNCHANGED advancedResult
     ELSE /\ generatedCode' = WithPreamble(options.rCode)
          /\ pc' = "advanced_run"
          /\ UNCHANGED << generateCalls, endpointRequests, lastRequest,
                          systemPrompt, advancedResult >>
  /\ UNCHANGED << inputs, downloads, cleaning, eventLoop, interactive, streaming, correction, dataFiles, analysisResults,
                  executionResult, sandboxes, runSandbox, runCalls >>

\* sandbox.runCode with the streaming callbacks: it resolves to an execution
\* whose chunks the callbacks have pushed in delivery order, or it throws.
AdvancedRun ==
  /\ pc = "advanced_run"
  /\ runCalls' = runCalls + 1
  /\ \/ \E execution \in Executions :
          /\ executionResult' = execution
          /\ pc' = "advanced_collect"
          /\ UNCHANGED advancedResult
     \/ /\ AdvancedCatch(TimeoutMessage)
        /\ UNCHANGED executionResult
  /\ UNCHANGED << inputs, downloads, cleaning, eventLoop, interactive, streaming, systemPrompt, correction, dataFiles, analysisResults,
                  generatedCode, generateCalls, endpointRequests, lastRequest,
                  sandboxes, runSandbox >>

\* The listing of the output directory (a failure leaves it empty), the
\* download of every listed file whatever its extension (a failed read or
\* write skips the file), the return.
AdvancedCollect ==
  /\ pc = "advanced_collect"
  /\ \E outputFiles \in OutputListings :
     \E failed \in SUBSET (1..Len(outputFiles)) :
       /\ analysisResults' =
            analysisResults
              \cup {outputFiles[i] : i \in (1..Len(outputFiles)) \ failed}
       /\ advancedResult' =
            AdvancedExecuted(executionResult, dataFiles,
                             Pushed(outputFiles, failed), generatedCode,
                             runSandbox)
  /\ pc' = "advanced_done"
  /\ UNCHANGED << inputs, downloads, cleaning, eventLoop, interactive, streaming, systemPrompt, correction, dataFiles, generatedCode,
                  executionResult, generateCalls, endpointRequests,
                  lastRequest, sandboxes, runSandbox, runCalls >>

\* ---------------------------------------------------- downloadFilesFromSandbox
\* mkdirSync of localDir throws (the error is rethrown), or every file of
\* the list is read and written under its base name whatever its extension;
\* a file whose read or write throws is skipped and the loop goes on.
DownloadFiles ==
  /\ pc = "download_files"
  /\ \/ \E failed \in SUBSET (1..Len(sandboxFiles)) :
          /\ localDirFiles' =
               localDirFiles
                 \cup {sandboxFiles[i] : i \in (1..Len(sandboxFiles)) \ failed}
          /\ downloadedFiles' = Pushed(sandboxFiles, failed)
          /\ pc' = "download_files_returned"
     \/ /\ pc' = "download_files_thrown"
        /\ UNCHANGED downloads
  /\ UNCHANGED << inputs, cleaning, eventLoop, interactive, streaming, systemPrompt, advanced, correction,
                  generatedCode, executionResult, generateCalls, endpointRequests, lastRequest,
                  sandboxes, runSandbox, runCalls >>

Next ==
  \/ DownloadFiles
  \/ AdvancedStart
  \/ AdvancedUpload
  \/ AdvancedGenerate
  \/ AdvancedRun
  \/ AdvancedCollect
  \/ EnterAttempt
  \/ ReturnExhausted
  \/ Generate
  \/ CreateSandbox
  \/ RunCode
  \/ OpenDownload
  \/ Download
  \/ Classify
  \/ Main

Spec == Init /\ [][Next]_vars

\* ------------------------------------------------------- concurrent requests
\* Two calls of runWithCorrection started by one process without awaiting
\* the first (as with Promise.all): each call has its own arguments, locals
\* and sandboxes; the provider and the local plots directory are the same.
\* The event loop runs one continuation at a time; at an await it may go on
\* with the other call.
RequestLocals ==
  [defined |-> TRUE,
   userPrompt |-> userPrompt,
   maxAttempts |-> maxAttempts,
   pc |-> pc,
   attempt |-> attempt,
   result |-> result,
   errorContext |-> errorContext,
   promptWithContext |-> promptWithContext,
   generatedCode |-> generatedCode,
   executionResult |-> executionResult,
   generateCalls |-> generateCalls,
   endpointRequests |-> endpointRequests,
   lastRequest |-> lastRequest,
   runSandbox |-> runSandbox,
   downloadSandbox |-> downloadSandbox,
   runCalls |-> runCalls,
   written |-> written,
   processed |-> processed,
   returned |-> returned,
   returns |-> returns,
   report |-> report]

\* The positions at which a call waits for a promise of the provider or of
\* the endpoint, and the position of a call that has ended.
AwaitPositions == {"generate", "create", "run", "collect", "download", "done"}

ConcurrentInit ==
  /\ entry = RunWithCorrection
  /\ apiKeyConfigured = TRUE
  /\ userPrompt \in UserPrompts
  /\ maxAttempts = ConcurrentAttempts
  /\ options = NoOptions
  /\ sandboxFiles = <<>>
  /\ pc = "while"
  /\ responseText = <<>>
  /\ cleanedCode = <<>>
  /\ running = 1
  /\ NotInteractive
  /\ NotStreaming
  /\ Fresh
  /\ suspended = RequestLocals

\* The running call waits at an await (or has ended) and the event loop
\* resumes the other call, which has not ended.
Switch ==
  /\ suspended.defined
  /\ pc \in AwaitPositions
  /\ suspended.pc # "done"
  /\ running' = 3 - running
  /\ suspended' = RequestLocals
  /\ userPrompt' = suspended.userPrompt
  /\ maxAttempts' = suspended.maxAttempts
  /\ pc' = suspended.pc
  /\ attempt' = suspended.attempt
  /\ result' = suspended.result
  /\ errorContext' = suspended.errorContext
  /\ promptWithContext' = suspended.promptWithContext
  /\ generatedCode' = suspended.generatedCode
  /\ executionResult' = suspended.executionResult
  /\ generateCalls' = suspended.generateCalls
  /\ endpointRequests' = suspended.endpointRequests
  /\ lastRequest' = suspended.lastRequest
  /\ runSandbox' = suspended.runSandbox
  /\ downloadSandbox' = suspended.downloadSandbox
  /\ runCalls' = suspended.runCalls
  /\ written' = suspended.written
  /\ processed' = suspended.processed
  /\ returned' = suspended.returned
  /\ returns' = suspended.returns
  /\ report' = suspended.report
  /\ UNCHANGED << entry, sandboxFiles, options, apiKeyConfigured, downloads,
                  interactive, streaming, systemPrompt, cleaning, advanced, sandboxes, plots, plotContents >>

ConcurrentNext ==
  \/ Switch
  \/ EnterAttempt
  \/ ReturnExhausted
  \/ Generate
  \/ CreateSandbox
  \/ RunCode
  \/ OpenDownload
  \/ Download
  \/ Classify
  \/ Main

ConcurrentSpec == ConcurrentInit /\ [][ConcurrentNext]_vars

\* ------------------------------------------------------- streaming callbacks
ExecuteRCodeStreaming == "executeRCodeStreaming"

\* The options of a streaming run. executeRCodeStreaming takes collectOutput,
\* logToConsole and the callbacks of the caller (given or not);
\* runAdvancedRAnalysis always collects, takes no callback and logs when
\* streamToConsole is set.
StreamOptions ==
  [function : {ExecuteRCodeStreaming}, collectOutput : BOOLEAN,
   logToConsole : BOOLEAN, onStdout : BOOLEAN, onStderr : BOOLEAN]
    \cup [function : {RunAdvancedRAnalysis}, collectOutput : {TRUE},
          logToConsole : BOOLEAN, onStdout : {FALSE}, onStderr : {FALSE}]

\* The chunks the provider emits: a stream and a text.
Streams == {"stdout", "stderr"}
ChunkData == {"a", "b"}
MaxChunks == 3

\* A collector that puts the newest chunk first.
PushFront(array, data) == <<data>> \o array

\* array.push(data)
Push(array, data) == Append(array, data)

\* The collector after the callback of a stream ran on data: if
\* (collectOutput) collectedOutput[stream].push(data).
Collect(output, stream, data) ==
  IF streamOptions.collectOutput
  THEN [output EXCEPT ![stream] = Push(output[stream], data)]
  ELSE output

\* if (logToConsole) console.log or console.error with the tag of the stream
Log(lines, stream, data) ==
  IF streamOptions.logToConsole
  THEN Append(lines, <<stream, data>>)
  ELSE lines

\* if (onStdout) onStdout(data), if (onStderr) onStderr(data)
CallBack(calls, stream, data) ==
  IF (stream = "stdout" /\ streamOptions.onStdout)
       \/ (stream = "stderr" /\ streamOptions.onStderr)
  THEN [calls EXCEPT ![stream] = Append(calls[stream], data)]
  ELSE calls

StreamingInit ==
  /\ entry = ExecuteRCodeStreaming
  /\ apiKeyConfigured = TRUE
  /\ userPrompt = <<>>
  /\ maxAttempts = 0
  /\ options = NoOptions
  /\ sandboxFiles = <<>>
  /\ pc = "streaming_create"
  /\ responseText = <<>>
  /\ cleanedCode = <<>>
  /\ running = 1
  /\ suspended = NoRequest
  /\ NotInteractive
  /\ Fresh
  /\ streamOptions \in StreamOptions
  /\ delivered = <<>>
  /\ collectedOutput = NoOutput
  /\ consoleLines = <<>>
  /\ callbackCalls = NoOutput
  /\ streamReturned = Undefined

\* Sandbox.create resolves, or throws and the function rethrows (in
\* runAdvancedRAnalysis the catch block returns the failure).
StreamingCreate ==
  /\ pc = "streaming_create"
  /\ \/ /\ sandboxes' = sandboxes + 1
        /\ runSandbox' = sandboxes + 1
        /\ pc' = "streaming_run"
     \/ /\ pc' = "streaming_thrown"
        /\ UNCHANGED << sandboxes, runSandbox >>
  /\ UNCHANGED << streaming, runCalls >>

\* sandbox.runCode is called with the callbacks.
StreamingRunCode ==
  /\ pc = "streaming_run"
  /\ runCalls' = runCalls + 1
  /\ pc' = "streaming_chunks"
  /\ UNCHANGED << streaming, sandboxes, runSandbox >>

\* The provider delivers a chunk: the callback of its stream collects it,
\* logs it and hands it to the callback of the caller.
DeliverChunk ==
  /\ pc = "streaming_chunks"
  /\ Len(delivered) < MaxChunks
  /\ \E stream \in Streams, data \in ChunkData :
       /\ delivered' = Append(delivered, [stream |-> stream, data |-> data])
       /\ collectedOutput' = Collect(collectedOutput, stream, data)
       /\ consoleLines' = Log(consoleLines, stream, data)
       /\ callbackCalls' = CallBack(callbackCalls, stream, data)
  /\ UNCHANGED << streamOptions, streamReturned, pc, sandboxes, runSandbox,
                  runCalls >>

\* runCode resolves and the function returns the collector (null when
\* collectOutput is false), or runCode throws.
StreamingReturn ==
  /\ pc = "streaming_chunks"
  /\ \/ /\ streamReturned' =
             IF streamOptions.collectOutput
             THEN [defined |-> TRUE, collectedOutput |-> collectedOutput]
             ELSE [defined |-> TRUE, collectedOutput |-> Null]
        /\ pc' = "streaming_returned"
     \/ /\ pc' = "streaming_thrown"
        /\ UNCHANGED streamReturned
  /\ UNCHANGED << streamOptions, delivered, collectedOutput, consoleLines,
                  callbackCalls, sandboxes, runSandbox, runCalls >>

StreamingStep ==
  \/ StreamingCreate
  \/ StreamingRunCode
  \/ DeliverChunk
  \/ StreamingReturn

StreamingNext ==
  /\ StreamingStep
  /\ UNCHANGED << inputs, downloads, cleaning, eventLoop, interactive, advanced,
                  correction, generatedCode, executionResult, generateCalls,
                  endpointRequests, lastRequest, systemPrompt >>

StreamingSpec == StreamingInit /\ [][StreamingNext]_vars

\* ------------------------------------------------------ r_modeling_assistant.js
\* A saved model among the files an execution created.
ModelRds == [name |-> "model", ext |-> "rds"]

\* What sandbox.runCode resolves to for a modeling task.
ModelingExecutions ==
  [error : RemoteErrors,
   stdout : StdoutLists,
   stderr : StderrLists,
   filesystem : {NoFilesystem,
                 [present |-> TRUE,
                  createdFiles |-> <<ModelRds, DataCsv, PlotPng>>]}]

\* The extension test of the download loop of processModelingRequest.
ModelingExtensions == {"png", "jpg", "pdf", "rds"}
IsModelOutput(file) == file.ext \in ModelingExtensions

ModelingInit ==
  /\ entry = ProcessModelingRequest
  /\ apiKeyConfigured \in BOOLEAN
  /\ userPrompt \in UserPrompts
  /\ maxAttempts = 0
  /\ options = NoOptions
  /\ sandboxFiles = <<>>
  /\ pc = "modeling_generate"
  /\ responseText = <<>>
  /\ cleanedCode = <<>>
  /\ running = 1
  /\ suspended = NoRequest
  /\ NotInteractive
  /\ NotStreaming
  /\ Fresh

\* catch (error) { return { prompt: userPrompt, error: error.message,
\* success: false } }
ModelingCatch(message) ==
  /\ returned' = CaughtResult(userPrompt, message)
  /\ returns' = returns + 1
  /\ pc' = "modeling_returned"

\* generateRCode(userPrompt, enhancedPrompt): generateRCode has one
\* parameter, userPrompt, so the provider's generator is called with the
\* user prompt alone and sends R_SYSTEM_PROMPT as the system message.
ModelingGenerate ==
  /\ pc = "modeling_generate"
  /\ generateCalls' = generateCalls + 1
  /\ lastRequest' = userPrompt
  /\ IF ~apiKeyConfigured
     THEN /\ ModelingCatch(MissingKeyMessage)
          /\ UNCHANGED << endpointRequests, systemPrompt, generatedCode >>
     ELSE /\ endpointRequests' = endpointRequests + 1
          /\ systemPrompt' = R_SYSTEM_PROMPT
          /\ \/ /\ ModelingCatch(EndpointErrorMessage)
                /\ UNCHANGED generatedCode
             \/ \E response \in Responses :
                  /\ generatedCode' = cleanRCode(Trim(response))
                  /\ pc' = "modeling_create"
                  /\ UNCHANGED << returned, returns >>
  /\ UNCHANGED << executionResult, sandboxes, handles, runCalls, written >>

\* executeRCode: Sandbox.create resolves or throws.
ModelingCreateSandbox ==
  /\ pc = "modeling_create"
  /\ \/ /\ sandboxes' = sandboxes + 1
        /\ runSandbox' = sandboxes + 1
        /\ pc' = "modeling_run"
        /\ UNCHANGED << returned, returns >>
     \/ /\ ModelingCatch(SessionCreationMessage)
        /\ UNCHANGED << sandboxes, runSandbox >>
  /\ UNCHANGED << generateCalls, lastRequest, endpointRequests, systemPrompt,
                  generatedCode, executionResult, downloadSandbox, runCalls,
                  written >>

\* executeRCode: sandbox.runCode resolves to an execution or throws.
ModelingRunCode ==
  /\ pc = "modeling_run"
  /\ runCalls' = runCalls + 1
  /\ \/ \E execution \in ModelingExecutions :
          /\ executionResult' = execution
          /\ pc' = "modeling_collect"
          /\ UNCHANGED << returned, returns >>
     \/ /\ ModelingCatch(TimeoutMessage)
        /\ UNCHANGED executionResult
  /\ UNCHANGED << generateCalls, lastRequest, endpointRequests, systemPrompt,
                  generatedCode, sandboxes, handles, written >>

\* The second Sandbox.create, made whether or not files were created.
ModelingOpenDownload ==
  /\ pc = "modeling_collect"
  /\ \/ /\ sandboxes' = sandboxes + 1
        /\ downloadSandbox' = sandboxes + 1
        /\ pc' = "modeling_download"
        /\ UNCHANGED << returned, returns >>
     \/ /\ ModelingCatch(SessionCreationMessage)
        /\ UNCHANGED << sandboxes, downloadSandbox >>
  /\ UNCHANGED << generateCalls, lastRequest, endpointRequests, systemPrompt,
                  generatedCode, executionResult, runSandbox, runCalls,
                  written >>

\* The download loop into model_plots and the return: the first read or
\* write that fails throws out of the loop.
ModelingDownload ==
  /\ pc = "modeling_download"
  /\ LET wanted ==
           SelectSeq(executionResult.filesystem.createdFiles, IsModelOutput)
     IN  \E failAt \in 0..Len(wanted) :
           IF failAt = 0
           THEN /\ written' = Range(wanted)
                /\ returned' =
                     ExecutedResult(userPrompt, generatedCode, executionResult)
                /\ returns' = returns + 1
                /\ pc' = "modeling_returned"
           ELSE /\ written' = {wanted[i] : i \in 1..(failAt - 1)}
                /\ ModelingCatch(FilesystemMessage)
  /\ UNCHANGED << generateCalls, lastRequest, endpointRequests, systemPrompt,
                  generatedCode, executionResult, sandboxes, handles,
                  runCalls >>

ModelingStep ==
  \/ ModelingGenerate
  \/ ModelingCreateSandbox
  \/ ModelingRunCode
  \/ ModelingOpenDownload
  \/ ModelingDownload

ModelingNext ==
  /\ ModelingStep
  /\ UNCHANGED << inputs, downloads, cleaning, eventLoop, interactive, streaming, advanced,
                  locals, plots, plotContents, processed, report >>

ModelingSpec == ModelingInit /\ [][ModelingNext]_vars

\* ----------------------------------------------------------- interactive_r.js
\* A record of the history as a previous session saved it.
OldRecord ==
  [keys |-> {"prompt", "success", "code", "useCorrection", "createdFiles",
             "timestamp"},
   prompt |-> <<"t0">>, success |-> TRUE, code |-> <<"x">>,
   useCorrection |-> TRUE, createdFiles |-> <<>>, timestamp |-> 0]

\* The history file when the process starts: absent, or saved by a previous
\* session with no record or with one.
HistoryFiles ==
  {NoHistoryFile, [exists |-> TRUE, records |-> <<>>],
   [exists |-> TRUE, records |-> <<OldRecord>>]}

\* Lines the user enters.
Lines == {"quit", "Exit", "t1", "n", "Y"}

\* String.prototype.toLowerCase on the lines of the model.
ToLowerCase(line) ==
  IF line = "Exit" THEN "exit" ELSE IF line = "Y" THEN "y" ELSE line

\* Values runWithCorrection(prompt, 3, DEFAULT_TIMEOUT) and
\* processRRequest(prompt, DEFAULT_TIMEOUT) resolve to: an execution without
\* created files, one with created files, one with a remote error, a caught
\* exception.
RequestResults(p) ==
  {ExecutedResult(p, <<"x">>,
                  [error |-> e, stdout |-> <<"o1">>, stderr |-> <<>>,
                   filesystem |-> f]) :
     e \in RemoteErrors, f \in Filesystems}
    \cup {CaughtResult(p, TimeoutMessage)}

\* The entry addToHistory pushes: the fields handleUserRequest passes and the
\* timestamp; JSON.stringify leaves out a code that is undefined.
HistoryRecord(p, r, useCorrection, now) ==
  [keys |-> {"prompt", "success", "useCorrection", "createdFiles", "timestamp"}
              \cup ({"code"} \cap r.keys),
   prompt |-> p, success |-> r.success, code |-> r.code,
   useCorrection |-> useCorrection, createdFiles |-> r.createdFiles,
   timestamp |-> now]

InteractiveInit ==
  /\ entry = "interactive_r"
  /\ apiKeyConfigured = TRUE
  /\ userPrompt = <<>>
  /\ maxAttempts = 0
  /\ options = NoOptions
  /\ sandboxFiles = <<>>
  /\ pc = "interactive"
  /\ responseText = <<>>
  /\ cleanedCode = <<>>
  /\ running = 1
  /\ suspended = NoRequest
  /\ NotStreaming
  /\ Fresh
  /\ historyFile \in HistoryFiles
  /\ sessionHistory = <<>>
  /\ handler = "start"
  /\ questionCallback = "none"
  /\ question = NoQuestion
  /\ promptUserCalls = 0
  /\ questionsDropped = 0
  /\ clock = 1

\* rl.question(query, cb) of the readline interface: the callback is kept
\* when no question is pending; while one is pending the call only shows the
\* prompt again and the new callback is dropped.
Ask(pending, callback) == IF pending = "none" THEN callback ELSE pending
Dropped(pending) == IF pending = "none" THEN 0 ELSE 1

\* startInteractiveSession: loadHistory reads and parses the file if it
\* exists (a failure is logged and leaves sessionHistory empty), then
\* promptUser asks for the first task.
StartInteractiveSession ==
  /\ handler = "start"
  /\ \/ /\ historyFile.exists
        /\ sessionHistory' = historyFile.records
     \/ UNCHANGED sessionHistory
  /\ promptUserCalls' = promptUserCalls + 1
  /\ questionCallback' = Ask(questionCallback, "task")
  /\ questionsDropped' = questionsDropped + Dropped(questionCallback)
  /\ handler' = "idle"
  /\ UNCHANGED << historyFile, question, clock >>

\* The callback promptUser registered reads a line: quit or exit closes the
\* interface; any other line goes to handleUserRequest, which asks the
\* auto-correction question and returns, and the callback calls promptUser.
TaskLine ==
  /\ handler = "idle"
  /\ questionCallback = "task"
  /\ \E input \in Lines :
       IF ToLowerCase(input) \in {"quit", "exit"}
       THEN /\ handler' = "closed"
            /\ questionCallback' = "none"
            /\ UNCHANGED << question, promptUserCalls, questionsDropped >>
       ELSE /\ question' = [question EXCEPT !.prompt = <<input>>]
            /\ promptUserCalls' = promptUserCalls + 1
            /\ questionCallback' = Ask(Ask("none", "correction"), "task")
            /\ questionsDropped' =
                 questionsDropped + Dropped(Ask("none", "correction"))
            /\ UNCHANGED handler
  /\ UNCHANGED << historyFile, sessionHistory, clock >>

\* The callback of the auto-correction question reads the answer and awaits
\* runWithCorrection or processRRequest.
CorrectionLine ==
  /\ handler = "idle"
  /\ questionCallback = "correction"
  /\ \E answer \in Lines :
       question' = [question EXCEPT !.useCorrection = ToLowerCase(answer) # "n"]
  /\ questionCallback' = "none"
  /\ handler' = "processing"
  /\ UNCHANGED << historyFile, sessionHistory, promptUserCalls,
                  questionsDropped, clock >>

\* The awaited call resolves: the result is displayed, addToHistory pushes
\* the entry and saveHistory rewrites the file from sessionHistory (a failed
\* write is logged), and the save question is asked.
RequestCompletes ==
  /\ handler = "processing"
  /\ \E r \in RequestResults(question.prompt) :
       LET pushed ==
             Append(sessionHistory,
                    HistoryRecord(question.prompt, r, question.useCorrection,
                                  clock))
       IN  /\ question' = [question EXCEPT !.result = r]
           /\ sessionHistory' = pushed
           /\ \/ historyFile' = [exists |-> TRUE, records |-> pushed]
              \/ UNCHANGED historyFile
  /\ clock' = clock + 1
  /\ questionCallback' = Ask(questionCallback, "save")
  /\ questionsDropped' = questionsDropped + Dropped(questionCallback)
  /\ handler' = "idle"
  /\ UNCHANGED promptUserCalls

\* The callback of the save question reads the answer: on y it writes
\* result.code to a file; writeFileSync throws on a code that is undefined,
\* outside every try block.
SaveLine ==
  /\ handler = "idle"
  /\ questionCallback = "save"
  /\ questionCallback' = "none"
  /\ \E answer \in Lines :
       IF ToLowerCase(answer) = "y" /\ "code" \notin question.result.keys
       THEN handler' = "crashed"
       ELSE UNCHANGED handler
  /\ UNCHANGED << historyFile, sessionHistory, question, promptUserCalls,
                  questionsDropped, clock >>

\* A line entered while no question is pending is emitted as a line event,
\* for which the program has no listener: it changes nothing.

InteractiveStep ==
  \/ StartInteractiveSession
  \/ TaskLine
  \/ CorrectionLine
  \/ RequestCompletes
  \/ SaveLine

InteractiveNext ==
  /\ InteractiveStep
  /\ UNCHANGED << inputs, downloads, cleaning, eventLoop, advanced, correction,
                  generatedCode, executionResult, generateCalls,
                  endpointRequests, lastRequest, sandboxes, runSandbox,
                  runCalls, pc, systemPrompt, streaming >>

InteractiveSpec == InteractiveInit /\ [][InteractiveNext]_vars

\* ------------------------------------------------------------ generateRCode
\* generateRCode called on its own: the provider call has resolved to a
\* trimmed response text (line 94) which cleanRCode cleans (line 190).
GenerateRCodeInit ==
  /\ entry = GenerateRCode
  /\ apiKeyConfigured = TRUE
  /\ userPrompt \in UserPrompts
  /\ maxAttempts = 0
  /\ options = NoOptions
  /\ sandboxFiles = <<>>
  /\ pc = "generateRCode"
  /\ responseText \in ResponseTexts
  /\ cleanedCode = <<>>
  /\ running = 1
  /\ suspended = NoRequest
  /\ NotInteractive
  /\ NotStreaming
  /\ Fresh

ReturnCleanedCode ==
  /\ pc = "generateRCode"
  /\ cleanedCode' = cleanRCode(Trim(responseText))
  /\ pc' = "generateRCode_returned"
  /\ UNCHANGED << inputs, downloads, eventLoop, interactive, streaming, systemPrompt, responseText,
                  advanced, correction,
                  generatedCode, executionResult, generateCalls,
                  endpointRequests, lastRequest, sandboxes, runSandbox,
                  runCalls >>

GenerateRCodeNext == ReturnCleanedCode

GenerateRCodeSpec == GenerateRCodeInit /\ [][GenerateRCodeNext]_vars

\* Every call awaited by the request eventually resolves or rejects.
FairSpec == Spec /\ WF_vars(Next)

\* ------------------------------------------------------------------ claims
\* The latest attempt whose processRRequest call has returned, and its value.
LastAttempt == processed.attempt
LastResult == processed.result
HasReturned == pc \in {"returned", "done"}
InCorrection == entry = RunWithCorrection
\* processRRequest is between its generation and its return.
MidAttempt == pc \in {"create", "run", "collect", "download"}
\* The loop went on after attempt LastAttempt: it classified it as failed.
ClassifiedFailed == LastAttempt >= 1 /\ attempt = LastAttempt + 1
\* The loop returned at attempt LastAttempt: it classified it as a success.
ClassifiedSucceeded == LastAttempt >= 1 /\ attempt = LastAttempt /\ HasReturned

\* C1: if attempt k is classified as a success, runWithCorrection returns at
\* attempt k with that attempt's result, and no generation call and no
\* execution call follows: the calls made stay those of attempts 1..k.
C1_SuccessEndsLoop ==
  (LastAttempt >= 1 /\ IsSuccess(LastResult)) =>
    /\ pc \in {"classify", "returned", "done"}
    /\ attempt = LastAttempt
    /\ generateCalls = LastAttempt
    /\ runCalls <= LastAttempt
    /\ (pc # "classify" => returns = 1 /\ returned = LastResult)

\* A success at attempt 2, after a failed attempt 1, has been returned.
C1_Witness ==
  /\ pc = "done"
  /\ LastAttempt = 2
  /\ IsSuccess(returned)
  /\ generateCalls = 2

\* C2: if every attempt 1..maxAttempts is classified as failed, the value
\* returned is the result of attempt maxAttempts, the final attempt.
C2_ExhaustedReturnsFinal ==
  (HasReturned /\ maxAttempts >= 1 /\ ~IsSuccess(LastResult)) =>
    /\ LastAttempt = maxAttempts
    /\ returned = LastResult

\* Three failed attempts whose results differ, the third one returned.
C2_Witness ==
  /\ pc = "done"
  /\ maxAttempts = 3
  /\ LastAttempt = 3
  /\ ~IsSuccess(returned)
  /\ returned.error = FilesystemMessage
  /\ errorContext = FilesystemMessage

\* C3: for every maxAttempts >= 1 runWithCorrection terminates, returns
\* exactly once, either on the first success or after the last permitted
\* attempt, and makes at most maxAttempts generation and execution calls.
C3_TerminatesWithinMaxAttempts ==
  /\ [](/\ returns <= 1
        /\ (InCorrection => generateCalls <= maxAttempts)
        /\ (InCorrection => runCalls <= maxAttempts)
        /\ (HasReturned <=> returns = 1)
        /\ (HasReturned /\ maxAttempts >= 1 =>
              \/ IsSuccess(returned) /\ attempt = LastAttempt
              \/ ~IsSuccess(returned) /\ LastAttempt = maxAttempts))
  /\ (maxAttempts >= 1 ~> returns = 1)

\* The loop has returned after using every permitted attempt.
C3_Witness ==
  /\ pc = "done"
  /\ maxAttempts = 3
  /\ generateCalls = 3
  /\ runCalls = 3
  /\ returns = 1

\* C4 as stated: the attempt counter never exceeds maxAttempts in any
\* reachable state of a request with maxAttempts >= 1.
C4_AttemptNeverExceedsMax ==
  (InCorrection /\ maxAttempts >= 1) => (attempt >= 1 /\ attempt <= maxAttempts)

\* C4 amended: the attempt counter starts at 1, never decreases and never
\* exceeds maxAttempts + 1; it exceeds maxAttempts only at the loop test that
\* ends the loop and after it, and every attempt in progress has a number of
\* at most maxAttempts.
C4_AttemptBounded ==
  /\ [](InCorrection =>
          /\ attempt >= 1
          /\ attempt <= maxAttempts + 1
          /\ (attempt = maxAttempts + 1 => pc \in {"while", "returned", "done"})
          /\ (generateCalls = 0 => attempt = 1))
  /\ [][attempt' >= attempt]_vars

\* The loop has exited after the last failed attempt with attempt at
\* maxAttempts + 1.
C4_Witness ==
  /\ pc = "returned"
  /\ maxAttempts = 3
  /\ attempt = 4
  /\ LastAttempt = 3

\* The remote run reported an error, its accumulated stderr text is not
\* empty, or the attempt ended in an exception and has no execution at all.
RemoteFailed(r) ==
  \/ "execution" \notin r.keys
  \/ r.execution.error # Null
  \/ JoinChunks(r.execution.stderr) # <<>>

\* C5 as stated: every code path that classifies an execution, the loop of
\* runWithCorrection and the result of runAdvancedRAnalysis, classifies it as
\* failed if the remote run reported an error or the stderr text is not empty.
C5_StderrFailsEveryPath ==
  /\ (ClassifiedSucceeded => ~RemoteFailed(LastResult))
  /\ (ClassifiedFailed => RemoteFailed(LastResult))
  /\ ("output" \in advancedResult.keys =>
        (advancedResult.success <=>
           advancedResult.error = <<>> /\ advancedResult.stderr = <<>>))

\* C5 amended: runWithCorrection classifies an attempt as failed if the
\* remote run reported an error, the accumulated stderr text is not empty or
\* the attempt threw, and as succeeded otherwise; runAdvancedRAnalysis and
\* the success flag of processRRequest follow the remote error alone.
C5_StderrFailsInCorrectionLoop ==
  /\ (ClassifiedSucceeded => ~RemoteFailed(LastResult))
  /\ (ClassifiedFailed => RemoteFailed(LastResult))
  /\ ("execution" \in LastResult.keys =>
        (LastResult.success <=> LastResult.execution.error = Null))
  /\ ("output" \in advancedResult.keys =>
        (advancedResult.success <=> advancedResult.error = <<>>))

\* An attempt without a remote error but with stderr text was classified as
\* failed by the loop.
C5_Witness ==
  /\ ClassifiedFailed
  /\ "execution" \in LastResult.keys
  /\ LastResult.execution.error = Null
  /\ LastResult.errors = <<"e1">>

\* The failure message of a failed attempt: the message of the exception
\* caught, or the error the remote run reported.
FailureMessage(r) ==
  IF "error" \in r.keys THEN r.error ELSE <<r.execution.error>>

\* The text of a failed attempt the claim sends back to the generator.
FailureText(r) ==
  IF Truthy(JoinChunks(r.execution.stderr))
  THEN JoinChunks(r.execution.stderr)
  ELSE FailureMessage(r)

\* C6: on attempt 1 the generator receives the user prompt unchanged; on
\* attempt k+1 it receives the user prompt followed by the stderr text of
\* attempt k or, when that is empty, the failure message of attempt k.
C6_NextPromptCarriesFailure ==
  (InCorrection /\ MidAttempt) =>
    lastRequest =
      IF attempt = 1 THEN userPrompt
      ELSE userPrompt \o <<PreviousErrorText>> \o FailureText(result)
             \o <<PleaseFixText>>

\* Failures of the remote provider inside one attempt.
ProviderFailures == {SessionCreationMessage, TimeoutMessage, FilesystemMessage}

\* C7: a provider failure inside an attempt (session creation, timeout, a
\* read during download) becomes a failed attempt: the loop goes on in
\* runWithCorrection with attempt advanced by exactly one, the message is the
\* error context of the next attempt, and at exhaustion the failure is
\* returned as a value.
C7_ProviderFailureIsFailedAttempt ==
  (LastAttempt >= 1 /\ LastResult.error \in ProviderFailures) =>
    /\ ~LastResult.success
    /\ pc \in {"classify", "while", "generate", "create", "run", "collect",
               "download", "returned", "done"}
    /\ (pc = "classify" => attempt = LastAttempt)
    /\ (pc # "classify" =>
          /\ attempt = LastAttempt + 1
          /\ errorContext = LastResult.error)
    /\ (MidAttempt =>
          /\ generateCalls = LastAttempt + 1
          /\ lastRequest = userPrompt \o <<PreviousErrorText>>
                             \o LastResult.error \o <<PleaseFixText>>)
    /\ (HasReturned => returned = LastResult /\ LastAttempt = maxAttempts)

\* After a timeout in attempt 1, attempt 2 has sent the timeout message to
\* the generator.
C7_Witness ==
  /\ pc = "run"
  /\ attempt = 2
  /\ LastResult.error = TimeoutMessage
  /\ lastRequest = userPrompt \o <<PreviousErrorText>> \o TimeoutMessage
                     \o <<PleaseFixText>>

\* Failures of the code generator itself.
GeneratorFailures == {MissingKeyMessage, EndpointErrorMessage}

\* C8: after a failure of the code generator no further generation call is
\* made: the calls stay those of the attempts up to the failed one.
C8_GeneratorFailureIsTerminal ==
  (InCorrection /\ LastAttempt >= 1 /\ LastResult.error \in GeneratorFailures)
    => generateCalls = LastAttempt

\* The loop has used every permitted attempt.
Exhausted == HasReturned /\ maxAttempts >= 1 /\ attempt > maxAttempts

\* C9: the result returned at exhaustion has success false, so main reports
\* a failure.
C9_ExhaustedResultFails ==
  Exhausted =>
    /\ ~returned.success
    /\ (pc = "done" => report = "failed")

\* C10: the result of a request that ended in failure includes the number of
\* the attempt that failed, the stderr text or failure message, and the
\* generated code that failed.
C10_FailureCarriesAttemptMessageCode ==
  Exhausted =>
    /\ "attempt" \in returned.keys
    /\ "code" \in returned.keys
    /\ (Truthy(returned.errors) \/ Truthy(returned.error))

\* C11: every sandbox opened during a top-level request has been closed
\* exactly once by the time the request completes, on success, on failure
\* and on timeout alike.
C11_EverySessionClosedOnce ==
  (InCorrection /\ HasReturned) =>
    \A s \in 1..sandboxes : Closes(s) = 1

\* C12: an attempt whose execution timed out is classified as failed, and
\* its sandbox has been closed when the next attempt holds a new sandbox.
C12_TimedOutSessionClosedBeforeNextOpen ==
  (InCorrection /\ LastAttempt >= 1 /\ LastResult.error = TimeoutMessage) =>
    /\ ~IsSuccess(LastResult)
    /\ (pc # "classify" => attempt = LastAttempt + 1)
    /\ (runSandbox # 0 => Closes(runSandbox - 1) = 1)

\* C14: within one attempt the generation call completes before the
\* execution call starts and the execution completes before the collection
\* of artifacts starts; the generation of attempt k+1 starts only after
\* processRRequest has returned for attempt k, collection included, so two
\* attempts of one request never interleave.
C14_AttemptPhasesInOrder ==
  /\ [](InCorrection => runCalls <= generateCalls /\ generateCalls <= attempt)
  /\ [][InCorrection =>
          /\ (generateCalls' # generateCalls =>
                /\ generateCalls = attempt - 1
                /\ LastAttempt = attempt - 1
                /\ executionResult = NoExecution
                /\ runSandbox = 0
                /\ downloadSandbox = 0)
          /\ (runCalls' # runCalls =>
                /\ generateCalls = attempt
                /\ lastRequest = promptWithContext
                /\ LastAttempt = attempt - 1
                /\ executionResult = NoExecution
                /\ downloadSandbox = 0)
          /\ ((downloadSandbox' \notin {0, downloadSandbox} \/ plots' # plots) =>
                /\ generateCalls = attempt
                /\ LastAttempt = attempt - 1
                /\ runSandbox # 0
                /\ executionResult # NoExecution)]_vars

\* Attempt 2 is collecting its artifacts after attempt 1 failed during its
\* own collection.
C14_Witness ==
  /\ pc = "download"
  /\ attempt = 2
  /\ LastResult.error = FilesystemMessage
  /\ generateCalls = 2
  /\ runCalls = 2

\* String.prototype.toLowerCase on the extensions of the model.
LowerCase(ext) == IF ext = "PNG" THEN "png" ELSE ext

\* The extension of a file is in the allowlist, letter case ignored.
InAllowlist(file) == LowerCase(file.ext) \in DownloadedExtensions

\* processRRequest has just returned what it returns when nothing was thrown.
ReturnedNormally == pc = "classify" /\ "createdFiles" \in result.keys

\* C15 as stated: in every collection path (processRRequest,
\* downloadFilesFromSandbox, the download step of runAdvancedRAnalysis) no
\* file whose extension is outside the allowlist is downloaded or returned.
C15_NeverCollectsOutsideAllowlist ==
  /\ \A f \in plots \cup analysisResults \cup localDirFiles : InAllowlist(f)
  /\ \A f \in Range(LastResult.createdFiles)
              \cup Range(advancedResult.outputFiles)
              \cup Range(downloadedFiles) : InAllowlist(f)

\* C15 amended: the download loop of processRRequest writes exactly the
\* created files whose extension is png, jpg or pdf, and nothing else ever
\* reaches the plots directory; the createdFiles it returns is the unfiltered
\* list of the execution; downloadFilesFromSandbox and runAdvancedRAnalysis
\* apply no extension test to the files they are given or find listed.
C15_OnlyProcessRRequestFilters ==
  /\ \A f \in plots \cup written : f.ext \in DownloadedExtensions
  /\ (ReturnedNormally /\ result.execution.filesystem.present =>
        written = {f \in Range(result.createdFiles) :
                     f.ext \in DownloadedExtensions})
  /\ (ReturnedNormally =>
        result.createdFiles = result.execution.filesystem.createdFiles)
  /\ localDirFiles \subseteq Range(sandboxFiles)
  /\ \E listing \in OutputListings : analysisResults \subseteq Range(listing)

\* processRRequest has downloaded plot.png and returns a list that also
\* names data.csv.
C15_Witness ==
  /\ ReturnedNormally
  /\ written = {PlotPng}
  /\ DataCsv \in Range(result.createdFiles)
  /\ DataCsv \notin plots

\* C16: collection never aborts because one file is unreadable: the file is
\* skipped and the execution result of the attempt is still returned.
C16_UnreadableFileIsSkipped ==
  [][/\ (pc = "download" =>
            result' = ExecutedResult(promptWithContext, generatedCode,
                                     executionResult))
     /\ (pc = "advanced_collect" => "outputFiles" \in advancedResult'.keys)]_vars

\* C17 as stated: in every collection path the files reported are exactly
\* the files that were written.
C17_ReportedFilesAreWrittenFiles ==
  /\ (pc = "download_files_returned" => Range(downloadedFiles) = localDirFiles)
  /\ ("outputFiles" \in advancedResult.keys =>
        Range(advancedResult.outputFiles) = analysisResults)
  /\ (ReturnedNormally => Range(result.createdFiles) = written)

\* C17 amended: downloadFilesFromSandbox and runAdvancedRAnalysis report
\* exactly the files they wrote, a file whose read or write failed being
\* left out; processRRequest reports the created-file list of the execution
\* as it is, of which the files written are a part.
C17_HelpersReportWrittenFiles ==
  /\ (pc = "download_files_returned" =>
        /\ Range(downloadedFiles) = localDirFiles
        /\ Len(downloadedFiles) = Cardinality(localDirFiles))
  /\ ("outputFiles" \in advancedResult.keys =>
        /\ Range(advancedResult.outputFiles) = analysisResults
        /\ Len(advancedResult.outputFiles) = Cardinality(analysisResults))
  /\ (pc = "advanced_done" /\ "outputFiles" \notin advancedResult.keys =>
        analysisResults = {})
  /\ (ReturnedNormally =>
        /\ Range(result.createdFiles)
             = Range(result.execution.filesystem.createdFiles)
        /\ written \subseteq Range(result.createdFiles))

\* downloadFilesFromSandbox was given data.csv and plot.png, the read of
\* data.csv failed, and it reports plot.png alone.
C17_Witness ==
  /\ pc = "download_files_returned"
  /\ sandboxFiles = <<DataCsv, PlotPng>>
  /\ downloadedFiles = <<PlotPng>>
  /\ localDirFiles = {PlotPng}

\* C18: a created file whose extension differs from an allowlisted one by
\* letter case only is downloaded as the lower-case one is.
C18_ExtensionMatchIgnoresCase ==
  ReturnedNormally =>
    \A f \in Range(result.execution.filesystem.createdFiles) :
      InAllowlist(f) => f \in written

\* The text holds no run of three backticks; it holds no backtick at all.
NoFence(code) ==
  \A i \in 1..(Len(code) - 2) :
    ~(code[i] = Backtick /\ code[i + 1] = Backtick /\ code[i + 2] = Backtick)
NoBacktick(code) == \A i \in 1..Len(code) : code[i] # Backtick

C19_ConcurrentRequestsIsolated ==
  suspended.defined =>
    /\ (runSandbox # 0 =>
          runSandbox \notin {suspended.runSandbox, suspended.downloadSandbox})
    /\ (downloadSandbox # 0 =>
          downloadSandbox \notin {suspended.runSandbox, suspended.downloadSandbox})
    /\ (pc = "done" /\ suspended.pc = "done" =>
          /\ \A f \in written : plotContents[f] = running
          /\ \A f \in suspended.written : plotContents[f] = 3 - running)

\* ------------------------------------------------------------------ C21, C22
\* A request of the interactive session completes.
RequestCompleted == handler = "processing" /\ handler' = "idle"

\* C21: the persisted history is append-only: a completed request leaves the
\* history file with exactly one record more, for that request, after all the
\* records the file held before, which stay in their order.
C21_HistoryAppendOnly ==
  [][RequestCompleted =>
       /\ historyFile'.exists
       /\ Len(historyFile'.records) = Len(historyFile.records) + 1
       /\ SubSeq(historyFile'.records, 1, Len(historyFile.records))
            = historyFile.records
       /\ historyFile'.records[Len(historyFile'.records)].prompt
            = question.prompt]_vars

\* C22: a question is asked only when none is pending, and whenever the
\* session waits for input with no request in progress a question is pending
\* (the task prompt once the request and its questions are done).
C22_OneQuestionThenNextPrompt ==
  /\ questionsDropped = 0
  /\ (handler = "idle" => questionCallback # "none")

\* ----------------------------------------------------------------------- C23
\* C23: no session handle is reused across attempts: an attempt starts
\* holding no handle, a handle is only ever bound to a session created at
\* that moment, and code is run through the handle of the session created
\* last, which is therefore a session created in the attempt that runs it.
C23_CodeRunsInSessionOfItsAttempt ==
  [][/\ (pc = "while" /\ pc' = "generate" =>
           runSandbox = 0 /\ downloadSandbox = 0)
     /\ (runSandbox' # runSandbox /\ runSandbox' # 0 =>
           runSandbox' = sandboxes + 1 /\ sandboxes' = sandboxes + 1)
     /\ (downloadSandbox' # downloadSandbox /\ downloadSandbox' # 0 =>
           downloadSandbox' = sandboxes + 1 /\ sandboxes' = sandboxes + 1)
     /\ (runCalls' # runCalls => runSandbox # 0 /\ runSandbox = sandboxes)]_vars

\* The second attempt has run its code in a session of its own.
C23_Witness ==
  /\ InCorrection
  /\ attempt = 2
  /\ pc = "collect"
  /\ runCalls = 2
  /\ runSandbox >= 2

\* ----------------------------------------------------------------------- C24
\* C24: the artifacts processRRequest downloads are read from the session in
\* which the code of the attempt was executed.
C24_DownloadsFromSessionThatRanCode ==
  InCorrection /\ pc = "download" => downloadSandbox = runSandbox

\* ----------------------------------------------------------------------- C25
\* C25 as stated: every call of the generator issues exactly one request to
\* the model endpoint.
C25_ExactlyOneRequestPerAttempt ==
  [][generateCalls' # generateCalls =>
       endpointRequests' = endpointRequests + 1]_vars

\* C25: an attempt calls the generator once, and the generator issues one
\* request to the endpoint when the API key is configured and none when it is
\* missing; nothing else issues a request; when the generation of an attempt
\* fails, the attempt returns a failure without code, no session has been
\* created and no code has been run in it.
C25_AtMostOneRequestPerAttempt ==
  [][/\ (generateCalls' # generateCalls =>
           /\ generateCalls' = generateCalls + 1
           /\ endpointRequests' =
                endpointRequests + (IF apiKeyConfigured THEN 1 ELSE 0))
     /\ (generateCalls' = generateCalls =>
           endpointRequests' = endpointRequests)
     /\ (InCorrection /\ pc # "classify" /\ pc' = "classify" =>
           generateCalls' = attempt)
     /\ (InCorrection /\ pc = "generate" /\ pc' = "classify" =>
           /\ sandboxes' = sandboxes
           /\ runCalls' = runCalls
           /\ runSandbox' = 0
           /\ ~processed'.result.success
           /\ "code" \notin processed'.result.keys)]_vars

\* The generation of the second attempt has failed at the endpoint.
C25_Witness ==
  /\ InCorrection
  /\ apiKeyConfigured
  /\ pc = "classify"
  /\ attempt = 2
  /\ processed.result = CaughtResult(promptWithContext, EndpointErrorMessage)
  /\ endpointRequests = 2
  /\ runCalls = 1

\* ----------------------------------------------------------------------- C27
\* C27: with maxAttempts <= 0 the loop test fails at once (for every such
\* value), so runWithCorrection generates nothing, runs nothing, creates no
\* session and returns undefined; with maxAttempts >= 1 it returns the result
\* object of the last attempt it performed.
C27_ReturnsLastResultOrUndefined ==
  /\ \A m \in (0 - MaxAttemptsArg)..0 : ~LoopCondition(1, m)
  /\ (InCorrection /\ HasReturned /\ maxAttempts <= 0 =>
        /\ returned = Undefined
        /\ LastAttempt = 0
        /\ generateCalls = 0
        /\ runCalls = 0
        /\ sandboxes = 0)
  /\ (InCorrection /\ HasReturned /\ maxAttempts >= 1 =>
        /\ returned.defined
        /\ returned = LastResult
        /\ LastAttempt >= 1
        /\ generateCalls = LastAttempt)

\* runWithCorrection has returned from a call with maxAttempts = 0.
C27_Witness ==
  /\ InCorrection
  /\ HasReturned
  /\ maxAttempts = 0
  /\ attempt = 1
  /\ returns = 1
  /\ ~returned.defined

\* ----------------------------------------------------------------------- C28
\* C28: called with neither rCode nor prompt, runAdvancedRAnalysis returns
\* (it does not throw) the failure object with success false and the message
\* that either must be provided, having created no session, uploaded nothing,
\* called no generator and run no code.
C28_MissingInputFailsBeforeSandbox ==
  /\ (entry = RunAdvancedRAnalysis /\ ~Truthy(options.rCode)
        /\ ~Truthy(options.prompt) =>
        /\ pc \in {"advanced", "advanced_done"}
        /\ sandboxes = 0
        /\ dataFiles = <<>>
        /\ generateCalls = 0
        /\ endpointRequests = 0
        /\ runCalls = 0
        /\ (pc = "advanced_done" =>
              /\ advancedResult.keys = {"success", "error"}
              /\ ~advancedResult.success
              /\ advancedResult.error = MissingInputMessage))
  /\ (pc = "advanced_done" /\ advancedResult.error = MissingInputMessage =>
        ~Truthy(options.rCode) /\ ~Truthy(options.prompt))

\* The call without code and prompt, asking for an upload, has returned.
C28_Witness ==
  /\ entry = RunAdvancedRAnalysis
  /\ pc = "advanced_done"
  /\ options.rCode = <<>>
  /\ options.prompt = <<>>
  /\ options.dataDir
  /\ advancedResult = AdvancedCaught(MissingInputMessage)

\* ----------------------------------------------------------------------- C29
\* C29: the request processModelingRequest sends to the model endpoint
\* carries R_MODELING_PROMPT as its system instruction.
C29_ModelingPromptIsSystemInstruction ==
  entry = ProcessModelingRequest /\ endpointRequests > 0 =>
    systemPrompt = R_MODELING_PROMPT

\* ----------------------------------------------------------------------- C26
IsStdoutChunk(chunk) == chunk.stream = "stdout"
IsStderrChunk(chunk) == chunk.stream = "stderr"
\* The texts of a list of chunks, in the order of the list.
DataOf(chunks) == [i \in 1..Len(chunks) |-> chunks[i].data]
DeliveredStdout == DataOf(SelectSeq(delivered, IsStdoutChunk))
DeliveredStderr == DataOf(SelectSeq(delivered, IsStderrChunk))

\* C26: at every moment of a streaming run the stdout array of a collector
\* that collects holds exactly the stdout chunks delivered so far, in emission
\* order, and the stderr array the stderr chunks; the callback the caller gave
\* for a stream has been called once with every chunk of that stream, in
\* order, whatever collectOutput and logToConsole are; the function returns
\* the collector as it stands after the last chunk.
C26_BuffersHoldDeliveredChunksInOrder ==
  /\ (streamOptions.collectOutput =>
        /\ collectedOutput.stdout = DeliveredStdout
        /\ collectedOutput.stderr = DeliveredStderr)
  /\ callbackCalls.stdout =
       (IF streamOptions.onStdout THEN DeliveredStdout ELSE <<>>)
  /\ callbackCalls.stderr =
       (IF streamOptions.onStderr THEN DeliveredStderr ELSE <<>>)
  /\ (pc = "streaming_returned" /\ streamOptions.collectOutput =>
        streamReturned.collectedOutput =
          [stdout |-> DeliveredStdout, stderr |-> DeliveredStderr])

\* executeRCodeStreaming, neither collecting nor logging, has returned after
\* three chunks: stdout a, stderr b, stdout b, each handed to its callback.
C26_Witness ==
  /\ pc = "streaming_returned"
  /\ streamOptions.function = ExecuteRCodeStreaming
  /\ ~streamOptions.collectOutput
  /\ ~streamOptions.logToConsole
  /\ Len(delivered) = 3
  /\ callbackCalls = [stdout |-> <<"a", "b">>, stderr |-> <<"b">>]

\* ----------------------------------------------------------------------- C30
\* A text that neither starts nor ends with white space.
NoOuterSpace(s) == Len(s) = 0 \/ (~IsSpace(s[1]) /\ ~IsSpace(s[Len(s)]))

\* C30: cleanRCode is idempotent: cleaning the code it returned gives that
\* code again, and the code has no leading or trailing white space.
C30_CleanRCodeIdempotent ==
  pc = "generateRCode_returned" =>
    /\ cleanedCode = cleanRCode(responseText)
    /\ cleanRCode(cleanedCode) = cleanedCode
    /\ NoOuterSpace(cleanedCode)

====
